---- MODULE Spec2Model ----
(***************************************************************************)
(* Model of main.cpp: the generic singly linked list ListaSensor<T>, the   *)
(* sensors built on it and the polymorphic registry ListaGeneral.          *)
(*                                                                         *)
(* Memory is modelled explicitly: every Nodo lives at an address, `new`    *)
(* returns any address that is not allocated, `delete` gives it back.      *)
(* The list operations are operators over a memory record h so that the    *)
(* composite operations (copiarDesde, operator=, the destructor) are the   *)
(* same compositions of push_back and clear as in the source.              *)
(***************************************************************************)
EXTENDS Integers, Sequences, FiniteSets, TLC

\* ---------------------------------------------------------------- bounds
MaxNodos == 4       \* addresses available for ListaSensor<T>::Nodo
MaxCuenta == 3      \* calls counted per operation in the counted run
MaxLecturas == 3    \* addresses for the readings of the sensor-level run
MaxLlamadas == 4    \* procesarLectura calls counted since an ingestion
MaxSensores == 2    \* addresses for the sensors of the registry-level run

NULL == 0

Dir == 1..MaxNodos
\* The two ListaSensor objects of the list-level runs (the C and D, A and B
\* of the copy laws).
Listas == {1, 2}
\* The values pushed in the list-level runs (a tie and a strict order).
Valores == {1, 2}
\* Values the caller's variable may hold before pop_min(outMin).
Entradas == {0} \cup Valores

\* ----------------------------------------------------------------- state
VARIABLES
    dato,        \* Nodo::dato, by address
    siguiente,   \* Nodo::siguiente, by address
    alloc,       \* addresses currently allocated (new without delete)
    vivas,       \* ListaSensor objects constructed and not yet destroyed
    cabeza,      \* ListaSensor::cabeza, by list
    cola,        \* ListaSensor::cola, by list
    n,           \* ListaSensor::n, by list
    ret,         \* value returned by the last step (FALSE when void)
    outMin,      \* the caller's variable after pop_min(outMin) (else 0)
    dobleLibre,  \* some delete was given an address not allocated
    pushes,      \* counted run: push_back calls since construction
    pops,        \* counted run: pop_min calls that returned true
    clears,      \* counted run: clear calls
    borrados,    \* counted run: nodes released by the clear calls
    traza,       \* history run: what the step before the last and the last did
    pc,          \* shell run: main is in its loop ("menu") or past it ("salida")
    previo,      \* the other lists' nodes and values before the last step
    last,        \* the operation performed by the last step
    tipo,        \* dynamic type of each sensor object ("-" when none)
    nombre,      \* SensorBase::nombre, by sensor
    salida,      \* what the last procesarLectura reported
    base,        \* readings held after the sensor's last ingestion
    llamadas,    \* procesarLectura calls since the sensor's last ingestion
    gsensor,     \* ListaGeneral::Nodo::sensor, by address
    gsiguiente,  \* ListaGeneral::Nodo::siguiente, by address
    galloc,      \* addresses of ListaGeneral::Nodo currently allocated
    gcabeza,     \* ListaGeneral::cabeza
    gcola,       \* ListaGeneral::cola
    gn,          \* ListaGeneral::n
    hallado,     \* pointer returned by the last buscarPorNombre
    insertados   \* history: the registered sensors, in order of insertion

listaVars == <<dato, siguiente, alloc, vivas, cabeza, cola, n, ret, outMin,
               dobleLibre, previo, last>>

contadores == <<pushes, pops, clears, borrados, traza, pc>>

sensorVars == <<tipo, nombre, salida, base, llamadas>>

registroVars ==
    <<gsensor, gsiguiente, galloc, gcabeza, gcola, gn, hallado, insertados>>

\* What the list-level runs leave alone.
fueraDeLista == <<contadores, sensorVars, registroVars>>

vars == <<listaVars, contadores, sensorVars, registroVars>>

\* The memory and the list objects as one record, threaded through the
\* operators below.
Mem ==
    [dato |-> dato, siguiente |-> siguiente, alloc |-> alloc,
     cabeza |-> cabeza, cola |-> cola, n |-> n, dobleLibre |-> dobleLibre]

SetMem(h) ==
    /\ dato' = h.dato
    /\ siguiente' = h.siguiente
    /\ alloc' = h.alloc
    /\ cabeza' = h.cabeza
    /\ cola' = h.cola
    /\ n' = h.n
    /\ dobleLibre' = h.dobleLibre

\* new Nodo(v) placed at address a: dato(v), siguiente(NULL).
NuevoNodo(h, a, v) ==
    [h EXCEPT !.dato[a] = v, !.siguiente[a] = NULL, !.alloc = @ \cup {a}]

\* delete of the node at address a. The freed cell is never read again by
\* the code; its contents are reset so that equal heaps are equal states.
\* Deleting an address that is not allocated is a double free.
Delete(h, a) ==
    [h EXCEPT !.alloc = @ \ {a}, !.dato[a] = 0, !.siguiente[a] = NULL,
              !.dobleLibre = @ \/ a \notin h.alloc]

\* Sequences of k distinct addresses of S: the results of k calls of new.
RECURSIVE Frescas(_, _)
Frescas(S, k) ==
    IF k = 0 THEN {<<>>}
    ELSE UNION {{<<a>> \o r : r \in Frescas(S \ {a}, k - 1)} : a \in S}

\* -------------------------------------------------------- ListaSensor<T>
\* (variant: the else branch forgets cola = nuevo)
push_back_sin_cola(h, l, v, a) ==
    LET h1 == NuevoNodo(h, a, v)
        h2 == IF h1.cabeza[l] = NULL
              THEN [h1 EXCEPT !.cabeza[l] = a, !.cola[l] = a]
              ELSE [h1 EXCEPT !.siguiente[h1.cola[l]] = a]
    IN  [h2 EXCEPT !.n[l] = @ + 1]

push_back(h, l, v, a) ==
    LET h1 == NuevoNodo(h, a, v)
        h2 == IF h1.cabeza[l] = NULL
              THEN [h1 EXCEPT !.cabeza[l] = a, !.cola[l] = a]
              ELSE [h1 EXCEPT !.siguiente[h1.cola[l]] = a, !.cola[l] = a]
    IN  [h2 EXCEPT !.n[l] = @ + 1]

\* The while loop of clear(): nxt is read before the node is deleted.
RECURSIVE clearBucle(_, _)
clearBucle(h, it) ==
    IF it = NULL THEN h
    ELSE clearBucle(Delete(h, it), h.siguiente[it])

\* (variant: the nodes are deleted, cabeza, cola and n keep their values)
clear_sin_vaciar(h, l) == clearBucle(h, h.cabeza[l])

clear(h, l) ==
    LET h1 == clearBucle(h, h.cabeza[l])
    IN  [h1 EXCEPT !.cabeza[l] = NULL, !.cola[l] = NULL, !.n[l] = 0]

\* (variant: the member-wise copy the compiler would generate)
copiarDesde_superficial(h, l, other, dirs) ==
    [h EXCEPT !.cabeza[l] = h.cabeza[other], !.cola[l] = h.cola[other],
              !.n[l] = h.n[other]]

\* The while loop of copiarDesde(): one push_back per node of the source,
\* dirs being the addresses the successive calls of new return.
RECURSIVE copiarBucle(_, _, _, _)
copiarBucle(h, l, it, dirs) ==
    IF it = NULL THEN h
    ELSE copiarBucle(push_back(h, l, h.dato[it], Head(dirs)), l,
                     h.siguiente[it], Tail(dirs))

copiarDesde(h, l, other, dirs) == copiarBucle(h, l, h.cabeza[other], dirs)

\* (variant: <= instead of <, which keeps the last of equal minima)
RECURSIVE BuscarMin_menor_igual(_, _, _, _, _)
BuscarMin_menor_igual(h, curr, prev, minNode, minPrev) ==
    IF curr = NULL THEN [minNode |-> minNode, minPrev |-> minPrev]
    ELSE IF h.dato[curr] <= h.dato[minNode]
         THEN BuscarMin_menor_igual(h, h.siguiente[curr], curr, curr, prev)
         ELSE BuscarMin_menor_igual(h, h.siguiente[curr], curr, minNode,
                                    minPrev)

\* The scan of pop_min: a strict < keeps the first of equal minima.
RECURSIVE BuscarMin(_, _, _, _, _)
BuscarMin(h, curr, prev, minNode, minPrev) ==
    IF curr = NULL THEN [minNode |-> minNode, minPrev |-> minPrev]
    ELSE IF h.dato[curr] < h.dato[minNode]
         THEN BuscarMin(h, h.siguiente[curr], curr, curr, prev)
         ELSE BuscarMin(h, h.siguiente[curr], curr, minNode, minPrev)

\* (variant: cola is left alone when the minimum is the last of several)
Desenlazar_sin_cola(h, l, minNode, minPrev) ==
    IF minPrev = NULL
    THEN LET h1 == [h EXCEPT !.cabeza[l] = h.siguiente[minNode]]
         IN  IF h1.cola[l] = minNode
             THEN [h1 EXCEPT !.cola[l] = h1.cabeza[l]] ELSE h1
    ELSE [h EXCEPT !.siguiente[minPrev] = h.siguiente[minNode]]

\* The unlinking of pop_min: rebinds cabeza / cola around minNode.
Desenlazar(h, l, minNode, minPrev) ==
    IF minPrev = NULL
    THEN LET h1 == [h EXCEPT !.cabeza[l] = h.siguiente[minNode]]
         IN  IF h1.cola[l] = minNode
             THEN [h1 EXCEPT !.cola[l] = h1.cabeza[l]] ELSE h1
    ELSE LET h1 == [h EXCEPT !.siguiente[minPrev] = h.siguiente[minNode]]
         IN  IF h1.cola[l] = minNode
             THEN [h1 EXCEPT !.cola[l] = minPrev] ELSE h1

\* (variant: the empty case zeroes the output before returning false)
pop_min_escribe(h, l, out) ==
    IF h.cabeza[l] = NULL THEN [h |-> h, ret |-> FALSE, out |-> 0]
    ELSE LET m == BuscarMin(h, h.cabeza[l], NULL, h.cabeza[l], NULL)
             h1 == Desenlazar(h, l, m.minNode, m.minPrev)
             h2 == Delete(h1, m.minNode)
         IN  [h |-> [h2 EXCEPT !.n[l] = @ - 1],
              ret |-> TRUE, out |-> h.dato[m.minNode]]

\* (variant: n-- is forgotten)
pop_min_sin_cuenta(h, l, out) ==
    IF h.cabeza[l] = NULL THEN [h |-> h, ret |-> FALSE, out |-> out]
    ELSE LET m == BuscarMin(h, h.cabeza[l], NULL, h.cabeza[l], NULL)
             h1 == Desenlazar(h, l, m.minNode, m.minPrev)
             h2 == Delete(h1, m.minNode)
         IN  [h |-> h2, ret |-> TRUE, out |-> h.dato[m.minNode]]

\* pop_min(outMin): out is the caller's variable before the call.
pop_min(h, l, out) ==
    IF h.cabeza[l] = NULL THEN [h |-> h, ret |-> FALSE, out |-> out]
    ELSE LET m == BuscarMin(h, h.cabeza[l], NULL, h.cabeza[l], NULL)
             h1 == Desenlazar(h, l, m.minNode, m.minPrev)
             h2 == Delete(h1, m.minNode)
         IN  [h |-> [h2 EXCEPT !.n[l] = @ - 1],
              ret |-> TRUE, out |-> h.dato[m.minNode]]

\* sum(): the additive fold from T(0).
RECURSIVE sumBucle(_, _, _)
sumBucle(h, it, s) ==
    IF it = NULL THEN s ELSE sumBucle(h, h.siguiente[it], s + h.dato[it])

sum(h, l) == IF h.cabeza[l] = NULL THEN 0 ELSE sumBucle(h, h.cabeza[l], 0)

\* The range of int.
IntMax == 2147483647

IntMin == (0 - IntMax) - 1

\* sum() of ListaSensor<int>: s += it->dato in int. An addition that leaves
\* the range of int is undefined behaviour: desborde tells that one did, and
\* v is then the sum as two's complement arithmetic gives it (modulo 2^32).
RECURSIVE sumIntBucle(_, _, _, _)
sumIntBucle(h, it, s, ub) ==
    IF it = NULL THEN [v |-> s, desborde |-> ub]
    ELSE LET d == h.dato[it]
         IN  IF d > 0 /\ s > IntMax - d
             THEN sumIntBucle(h, h.siguiente[it],
                              ((s - IntMax) - 1) + ((d - IntMax) - 1), TRUE)
             ELSE IF d < 0 /\ s < IntMin - d
             THEN sumIntBucle(h, h.siguiente[it],
                              ((s + IntMax) + 1) + ((d + IntMax) + 1), TRUE)
             ELSE sumIntBucle(h, h.siguiente[it], s + d, ub)

sum_int(h, l) ==
    IF h.cabeza[l] = NULL THEN [v |-> 0, desborde |-> FALSE]
    ELSE sumIntBucle(h, h.cabeza[l], 0, FALSE)

size(h, l) == h.n[l]

\* ---------------------------------------------- reading the current state
\* The addresses reached from cabeza by following siguiente (at most one
\* more than there are addresses, so that a cycle shows as an over-long
\* chain).
RECURSIVE Recorrer(_, _)
Recorrer(it, fuel) ==
    IF it = NULL \/ fuel = 0 THEN <<>>
    ELSE <<it>> \o Recorrer(siguiente[it], fuel - 1)

Nodos(l) == Recorrer(cabeza[l], Cardinality(DOMAIN siguiente) + 1)

Secuencia(l) == LET ns == Nodos(l) IN [i \in 1..Len(ns) |-> dato[ns[i]]]

Rango(s) == {s[i] : i \in 1..Len(s)}

\* What is observable of list c: its nodes and their values, in order.
Huella(c) == <<Nodos(c), Secuencia(c)>>

\* The lists an operation on l is not applied to, as they are before it.
Otras(l) == [c \in DOMAIN cabeza |-> IF c = l THEN <<>> ELSE Huella(c)]

\* ------------------------------------------------------------------ Init
InitLista ==
    /\ dato = [a \in Dir |-> 0]
    /\ siguiente = [a \in Dir |-> NULL]
    /\ alloc = {}
    /\ vivas = {}
    /\ cabeza = [l \in Listas |-> NULL]
    /\ cola = [l \in Listas |-> NULL]
    /\ n = [l \in Listas |-> 0]
    /\ ret = FALSE
    /\ outMin = 0
    /\ dobleLibre = FALSE
    /\ previo = [c \in Listas |-> Huella(c)]
    /\ last = [op |-> "init", l |-> NULL, src |-> NULL]

InitContadores ==
    /\ pushes = 0
    /\ pops = 0
    /\ clears = 0
    /\ borrados = 0
    /\ traza = <<"-", "-">>
    /\ pc = "menu"

\* No sensor and an empty registry: the list-level runs use neither.
SinSensores ==
    /\ tipo = [s \in Listas |-> "-"]
    /\ nombre = [s \in Listas |-> <<>>]
    /\ salida = [rama |-> "-"]
    /\ base = [s \in Listas |-> 0]
    /\ llamadas = [s \in Listas |-> 0]

SinRegistro ==
    /\ gsensor = [g \in {} |-> NULL]
    /\ gsiguiente = [g \in {} |-> NULL]
    /\ galloc = {}
    /\ gcabeza = NULL
    /\ gcola = NULL
    /\ gn = 0
    /\ hallado = NULL
    /\ insertados = <<>>

Init == InitLista /\ InitContadores /\ SinSensores /\ SinRegistro

\* --------------------------------------- operations on ListaSensor objects
\* ListaSensor(): cabeza(NULL), cola(NULL), n(0).
ListaVacia(h, l) == [h EXCEPT !.cabeza[l] = NULL, !.cola[l] = NULL, !.n[l] = 0]

Ctor(l) ==
    /\ l \notin vivas
    /\ vivas' = vivas \cup {l}
    /\ SetMem(ListaVacia(Mem, l))
    /\ last' = [op |-> "ctor", l |-> l, src |-> NULL]
    /\ previo' = Otras(l)
    /\ ret' = FALSE
    /\ outMin' = 0

\* ListaSensor(const ListaSensor& other): empty, then copiarDesde(other).
CopiaCtor(l, other) ==
    /\ l \notin vivas
    /\ other \in vivas
    /\ \E dirs \in Frescas(DOMAIN dato \ alloc, n[other]) :
           SetMem(copiarDesde(ListaVacia(Mem, l), l, other, dirs))
    /\ vivas' = vivas \cup {l}
    /\ last' = [op |-> "copia", l |-> l, src |-> other]
    /\ previo' = Otras(l)
    /\ ret' = FALSE
    /\ outMin' = 0

\* (variant: the this != &other test is missing)
asignar_sin_this(h, l, other, dirs) ==
    copiarDesde(clear(h, l), l, other, dirs)

\* operator=(const ListaSensor& other).
asignar(h, l, other, dirs) ==
    IF l # other THEN copiarDesde(clear(h, l), l, other, dirs) ELSE h

\* The addresses new can return during l = other: those free now and, when
\* clear() runs first, those of l's own nodes.
Asignar(l, other) ==
    /\ l \in vivas
    /\ other \in vivas
    /\ \E dirs \in Frescas((DOMAIN dato \ alloc) \cup
                           (IF l # other THEN Rango(Nodos(l)) ELSE {}),
                           IF l # other THEN n[other] ELSE 0) :
           SetMem(asignar(Mem, l, other, dirs))
    /\ last' = [op |-> "asignar", l |-> l, src |-> other]
    /\ previo' = IF l = other THEN [c \in DOMAIN cabeza |-> Huella(c)]
                 ELSE Otras(l)
    /\ ret' = FALSE
    /\ outMin' = 0
    /\ UNCHANGED vivas

\* ~ListaSensor(): clear().
Dtor(l) ==
    /\ l \in vivas
    /\ vivas' = vivas \ {l}
    /\ SetMem(clear(Mem, l))
    /\ last' = [op |-> "dtor", l |-> l, src |-> NULL]
    /\ previo' = Otras(l)
    /\ ret' = FALSE
    /\ outMin' = 0

PushBack(l, v) ==
    /\ l \in vivas
    /\ \E a \in DOMAIN dato \ alloc : SetMem(push_back(Mem, l, v, a))
    /\ last' = [op |-> "push_back", l |-> l, src |-> NULL]
    /\ previo' = Otras(l)
    /\ ret' = FALSE
    /\ outMin' = 0
    /\ UNCHANGED vivas

\* x is the value the caller's variable holds before the call.
PopMin(l, x) ==
    /\ l \in vivas
    /\ LET r == pop_min(Mem, l, x)
       IN  /\ SetMem(r.h)
           /\ ret' = r.ret
           /\ outMin' = r.out
    /\ last' = [op |-> "pop_min", l |-> l, src |-> NULL]
    /\ previo' = Otras(l)
    /\ UNCHANGED vivas

Clear(l) ==
    /\ l \in vivas
    /\ SetMem(clear(Mem, l))
    /\ last' = [op |-> "clear", l |-> l, src |-> NULL]
    /\ previo' = Otras(l)
    /\ ret' = FALSE
    /\ outMin' = 0
    /\ UNCHANGED vivas

\* Two ListaSensor objects driven through every public operation.
Next ==
    \/ \E l \in Listas : Ctor(l) /\ UNCHANGED fueraDeLista
    \/ \E l \in Listas, other \in Listas :
           CopiaCtor(l, other) /\ UNCHANGED fueraDeLista
    \/ \E l \in Listas, other \in Listas :
           Asignar(l, other) /\ UNCHANGED fueraDeLista
    \/ \E l \in Listas : Dtor(l) /\ UNCHANGED fueraDeLista
    \/ \E l \in Listas, v \in Valores :
           PushBack(l, v) /\ UNCHANGED fueraDeLista
    \/ \E l \in Listas : PopMin(l, 0) /\ UNCHANGED fueraDeLista
    \/ \E l \in Listas : Clear(l) /\ UNCHANGED fueraDeLista

Spec == Init /\ [][Next]_vars

\* One ListaSensor object, constructed empty, driven through push_back,
\* pop_min and clear while the calls are counted.
InitCuenta == Init

CuentaCtor ==
    /\ vivas = {}
    /\ Ctor(1)
    /\ UNCHANGED fueraDeLista

CuentaPush(v) ==
    /\ pushes < MaxCuenta
    /\ PushBack(1, v)
    /\ pushes' = pushes + 1
    /\ UNCHANGED <<pops, clears, borrados, traza, pc, sensorVars, registroVars>>

CuentaPop(x) ==
    /\ PopMin(1, x)
    /\ pops' = IF ret' THEN pops + 1 ELSE pops
    /\ UNCHANGED <<pushes, clears, borrados, traza, pc, sensorVars,
                   registroVars>>

CuentaClear ==
    /\ clears < MaxCuenta
    /\ Clear(1)
    /\ clears' = clears + 1
    /\ borrados' = borrados + Cardinality(alloc \ alloc')
    /\ UNCHANGED <<pushes, pops, traza, pc, sensorVars, registroVars>>

NextCuenta ==
    \/ CuentaCtor
    \/ \E v \in Valores : CuentaPush(v)
    \/ \E x \in Entradas : CuentaPop(x)
    \/ CuentaClear

SpecCuenta == InitCuenta /\ [][NextCuenta]_vars

\* One ListaSensor object driven through its operations, every step checked
\* against the state before it.
NextLista ==
    \/ Ctor(1) /\ UNCHANGED fueraDeLista
    \/ Dtor(1) /\ UNCHANGED fueraDeLista
    \/ \E v \in Valores : PushBack(1, v) /\ UNCHANGED fueraDeLista
    \/ \E x \in Entradas : PopMin(1, x) /\ UNCHANGED fueraDeLista
    \/ Clear(1) /\ UNCHANGED fueraDeLista

SpecLista == Init /\ [][NextLista]_vars

\* One ListaSensor object driven through its operations while traza keeps
\* what the last two steps did to it.
HistCtor ==
    /\ Ctor(1)
    /\ traza' = <<traza[2], "ctor">>
    /\ UNCHANGED <<pushes, pops, clears, borrados, pc, sensorVars,
                   registroVars>>

HistDtor ==
    /\ Dtor(1)
    /\ traza' = <<traza[2], "dtor">>
    /\ UNCHANGED <<pushes, pops, clears, borrados, pc, sensorVars,
                   registroVars>>

HistPush(v) ==
    /\ PushBack(1, v)
    /\ traza' = <<traza[2], "push_back">>
    /\ UNCHANGED <<pushes, pops, clears, borrados, pc, sensorVars,
                   registroVars>>

\* pop_min found nothing, emptied the list, removed its last node, or
\* removed another node.
HistPop(x) ==
    /\ PopMin(1, x)
    /\ traza' = <<traza[2],
                  IF ~ret' THEN "pop_min: nada"
                  ELSE IF cabeza'[1] = NULL THEN "pop_min: vacia"
                  ELSE IF cola'[1] # cola[1] THEN "pop_min: cola"
                  ELSE "pop_min: otro">>
    /\ UNCHANGED <<pushes, pops, clears, borrados, pc, sensorVars,
                   registroVars>>

HistClear ==
    /\ Clear(1)
    /\ traza' = <<traza[2],
                  IF cabeza[1] = NULL THEN "clear: vacia" ELSE "clear: llena">>
    /\ UNCHANGED <<pushes, pops, clears, borrados, pc, sensorVars,
                   registroVars>>

NextHistoria ==
    \/ HistCtor
    \/ HistDtor
    \/ \E v \in Valores : HistPush(v)
    \/ \E x \in Entradas : HistPop(x)
    \/ HistClear

SpecHistoria == Init /\ [][NextHistoria]_vars

\* ------------------------------------------------ C strings and sscanf
\* A const char* is NULL or points to a NUL-terminated string, held as the
\* sequence of its characters.
Cadena(cs) == [nulo |-> FALSE, cs |-> cs]

PunteroNulo == [nulo |-> TRUE, cs |-> <<>>]

Digitos == <<"0", "1", "2", "3", "4", "5", "6", "7", "8", "9">>

EsDigito(c) == \E i \in 1..Len(Digitos) : Digitos[i] = c

ValorDigito(c) == (CHOOSE i \in 1..Len(Digitos) : Digitos[i] = c) - 1

EsEspacio(c) == c \in {" ", "\t", "\n", "\r"}

\* The white space a conversion skips before the number.
RECURSIVE SaltarEspacios(_)
SaltarEspacios(cs) ==
    IF cs # <<>> /\ EsEspacio(Head(cs)) THEN SaltarEspacios(Tail(cs)) ELSE cs

Signo(cs) ==
    IF cs # <<>> /\ Head(cs) \in {"+", "-"}
    THEN [neg |-> Head(cs) = "-", resto |-> Tail(cs)]
    ELSE [neg |-> FALSE, resto |-> cs]

\* The longest prefix of digits: its value (from acc), its length (from k)
\* and what follows it.
RECURSIVE LeerDigitos(_, _, _)
LeerDigitos(cs, acc, k) ==
    IF cs # <<>> /\ EsDigito(Head(cs))
    THEN LeerDigitos(Tail(cs), acc * 10 + ValorDigito(Head(cs)), k + 1)
    ELSE [v |-> acc, k |-> k, resto |-> cs]

\* sscanf(texto, "%d", &v): r is 1 when a number was converted (v), and
\* it is converted from the longest prefix that is one: what follows is
\* left unread. r is 0 for the other results (0 or EOF): the callers test
\* == 1 only.
sscanf_d(cs) ==
    LET t == Signo(SaltarEspacios(cs))
        d == LeerDigitos(t.resto, 0, 0)
    IN  IF d.k = 0 THEN [r |-> 0, v |-> 0]
        ELSE [r |-> 1, v |-> IF t.neg THEN 0 - d.v ELSE d.v]

\* A float is held in units of 1/Escala: the texts of the runs carry at
\* most one fractional digit, which a float holds in order.
Escala == 10

\* sscanf(texto, "%f", &v) on decimal text (digits, sign, point; the texts
\* of the runs hold no exponent, hexadecimal, inf or nan form).
sscanf_f(cs) ==
    LET t == Signo(SaltarEspacios(cs))
        e == LeerDigitos(t.resto, 0, 0)
        f == IF e.resto # <<>> /\ Head(e.resto) = "."
             THEN LeerDigitos(Tail(e.resto), 0, 0)
             ELSE [v |-> 0, k |-> 0, resto |-> e.resto]
        m == e.v * Escala + ((f.v * Escala) \div (10 ^ f.k))
    IN  IF e.k + f.k = 0 THEN [r |-> 0, v |-> 0]
        ELSE [r |-> 1, v |-> IF t.neg THEN 0 - m ELSE m]

\* ---------------------------------------------------------------- sensors
NombreTam == 50

\* SensorBase(id): strncpy(nombre, id, sizeof(nombre)), then a NUL in the
\* last cell: the first 49 characters of id at most.
SensorBase(id) ==
    IF Len(id) <= NombreTam - 1 THEN id ELSE SubSeq(id, 1, NombreTam - 1)

\* SensorTemperatura::registrarDesdeTexto; a is the address new returns
\* when agregar(v) calls push_back.
registrarTemperatura(h, s, texto, a) ==
    IF texto.nulo THEN [h |-> h, ret |-> FALSE]
    ELSE LET r == sscanf_f(texto.cs)
         IN  IF r.r = 1 THEN [h |-> push_back(h, s, r.v, a), ret |-> TRUE]
             ELSE [h |-> h, ret |-> FALSE]

\* SensorPresion::registrarDesdeTexto.
registrarPresion(h, s, texto, a) ==
    IF texto.nulo THEN [h |-> h, ret |-> FALSE]
    ELSE LET r == sscanf_d(texto.cs)
         IN  IF r.r = 1 THEN [h |-> push_back(h, s, r.v, a), ret |-> TRUE]
             ELSE [h |-> h, ret |-> FALSE]

\* The virtual call s->registrarDesdeTexto(texto).
registrarDesdeTexto(h, s, texto, a) ==
    IF tipo[s] = "Temperatura" THEN registrarTemperatura(h, s, texto, a)
    ELSE registrarPresion(h, s, texto, a)

\* sum / (float)n as the pair of its operands; 0.0f when n is 0.
Promedio(h, s) ==
    IF size(h, s) > 0 THEN <<sum(h, s), size(h, s)>> ELSE <<0, 1>>

\* (variant: a sensor with a single reading is taken for an empty one)
procesarTemperatura_menor_igual(h, s) ==
    IF size(h, s) <= 1 THEN [h |-> h, salida |-> [rama |-> "sin lecturas"]]
    ELSE LET r == pop_min(h, s, 0)
         IN  [h |-> r.h,
              salida |-> [rama |-> "eliminada", eliminado |-> r.out,
                          promedio |-> Promedio(r.h, s)]]

\* (variant: the average is taken before the minimum is removed)
procesarTemperatura_promedio_antes(h, s) ==
    IF size(h, s) = 0 THEN [h |-> h, salida |-> [rama |-> "sin lecturas"]]
    ELSE LET r == pop_min(h, s, 0)
         IN  [h |-> r.h,
              salida |-> [rama |-> "eliminada", eliminado |-> r.out,
                          promedio |-> Promedio(h, s)]]

\* SensorTemperatura::procesarLectura: what it prints is the salida.
procesarTemperatura(h, s) ==
    IF size(h, s) = 0 THEN [h |-> h, salida |-> [rama |-> "sin lecturas"]]
    ELSE LET r == pop_min(h, s, 0)
         IN  IF r.ret
             THEN [h |-> r.h,
                   salida |-> [rama |-> "eliminada", eliminado |-> r.out,
                               promedio |-> Promedio(r.h, s)]]
             ELSE [h |-> r.h,
                   salida |-> [rama |-> "promedio", cuenta |-> size(r.h, s),
                               promedio |-> Promedio(r.h, s)]]

\* (variant: the body of the temperature sensor pasted into this one)
procesarPresion_elimina(h, s) ==
    IF size(h, s) = 0 THEN [h |-> h, salida |-> [rama |-> "sin lecturas"]]
    ELSE LET r == pop_min(h, s, 0)
         IN  [h |-> r.h,
              salida |-> [rama |-> "promedio", cuenta |-> size(r.h, s),
                          promedio |-> Promedio(r.h, s)]]

\* SensorPresion::procesarLectura: int s = historial.sum();
\* (float)s / (float)n, held as the pair of its operands.
procesarPresion(h, s) ==
    IF size(h, s) = 0 THEN [h |-> h, salida |-> [rama |-> "sin lecturas"]]
    ELSE LET su == sum_int(h, s)
         IN  [h |-> h,
              salida |-> [rama |-> "promedio", cuenta |-> size(h, s),
                          promedio |-> <<su.v, size(h, s)>>,
                          desborde |-> su.desborde]]

\* The virtual call s->procesarLectura().
procesarLectura(h, s) ==
    IF tipo[s] = "Temperatura" THEN procesarTemperatura(h, s)
    ELSE procesarPresion(h, s)

\* The texts given to registrarDesdeTexto in the sensor-level run.
Textos ==
    {Cadena(<<"1">>), Cadena(<<"2">>), Cadena(<<"1", ".", "5">>),
     Cadena(<<"2", "a">>), Cadena(<<"a">>), Cadena(<<>>), PunteroNulo}

\* One sensor, constructed: SensorTemperatura("T") or SensorPresion("P").
InitSensor ==
    /\ dato = [a \in 1..MaxLecturas |-> 0]
    /\ siguiente = [a \in 1..MaxLecturas |-> NULL]
    /\ alloc = {}
    /\ vivas = {1}
    /\ cabeza = [l \in Listas |-> NULL]
    /\ cola = [l \in Listas |-> NULL]
    /\ n = [l \in Listas |-> 0]
    /\ ret = FALSE
    /\ outMin = 0
    /\ dobleLibre = FALSE
    /\ previo = [c \in Listas |-> <<<<>>, <<>>>>]
    /\ last = [op |-> "init", l |-> NULL, txt |-> PunteroNulo]
    /\ InitContadores
    /\ \E t \in {"Temperatura", "Presion"} :
           /\ tipo = [s \in Listas |-> IF s \in vivas THEN t ELSE "-"]
           /\ nombre = [s \in Listas |->
                           IF s \in vivas
                           THEN SensorBase(IF t = "Temperatura"
                                           THEN <<"T">> ELSE <<"P">>)
                           ELSE <<>>]
    /\ salida = [rama |-> "-"]
    /\ base = [s \in Listas |-> 0]
    /\ llamadas = [s \in Listas |-> 0]
    /\ SinRegistro

\* s->registrarDesdeTexto(texto). new is called exactly when the text is
\* converted, whatever the address: a is the address it returns, NULL when
\* it is not called.
RegistrarDesdeTexto(s, texto) ==
    /\ s \in vivas
    /\ \E a \in IF registrarDesdeTexto(Mem, s, texto,
                                       CHOOSE d \in DOMAIN dato : TRUE).ret
                THEN DOMAIN dato \ alloc ELSE {NULL} :
           LET r == registrarDesdeTexto(Mem, s, texto, a)
           IN  /\ SetMem(r.h)
               /\ ret' = r.ret
               /\ base' = IF r.ret THEN [base EXCEPT ![s] = size(r.h, s)]
                          ELSE base
               /\ llamadas' = IF r.ret THEN [llamadas EXCEPT ![s] = 0]
                              ELSE llamadas
    /\ outMin' = 0
    /\ last' = [op |-> "registrar", l |-> s, txt |-> texto]
    /\ previo' = Otras(s)
    /\ UNCHANGED <<vivas, tipo, nombre, salida, contadores, registroVars>>

\* What a call that printed sal can have done: after an addition that left
\* the range of int, it printed the average of the wrapped sum, or the
\* program was stopped at the addition (a trapping build).
Resultados(sal) ==
    IF sal.rama = "promedio" /\ "desborde" \in DOMAIN sal /\ sal.desborde
    THEN {sal, [rama |-> "abortado"]}
    ELSE {sal}

\* s->procesarLectura().
ProcesarLectura(s) ==
    /\ s \in vivas
    /\ llamadas[s] < MaxLlamadas
    /\ LET r == procesarLectura(Mem, s)
       IN  /\ SetMem(r.h)
           /\ salida' \in Resultados(r.salida)
    /\ llamadas' = [llamadas EXCEPT ![s] = @ + 1]
    /\ ret' = FALSE
    /\ outMin' = 0
    /\ last' = [op |-> "procesar", l |-> s, txt |-> PunteroNulo]
    /\ previo' = Otras(s)
    /\ UNCHANGED <<vivas, tipo, nombre, base, contadores, registroVars>>

NextSensor ==
    \/ \E s \in Listas, texto \in Textos : RegistrarDesdeTexto(s, texto)
    \/ \E s \in Listas : ProcesarLectura(s)

SpecSensor == InitSensor /\ [][NextSensor]_vars

\* A SensorPresion and readings at the ends of the range of int.
InitPresion == InitSensor /\ tipo[1] = "Presion"

TextosPresion ==
    {Cadena(<<"1">>),
     Cadena(<<"2", "1", "4", "7", "4", "8", "3", "6", "4", "7">>),
     Cadena(<<"-", "2", "1", "4", "7", "4", "8", "3", "6", "4", "7">>)}

NextPresion ==
    \/ \E s \in Listas, texto \in TextosPresion : RegistrarDesdeTexto(s, texto)
    \/ \E s \in Listas : ProcesarLectura(s)

SpecPresion == InitPresion /\ [][NextPresion]_vars

\* --------------------------------------------------------------- registry
\* The ListaGeneral object gestion and the heap of its nodes.
Reg ==
    [sensor |-> gsensor, siguiente |-> gsiguiente, alloc |-> galloc,
     cabeza |-> gcabeza, cola |-> gcola, n |-> gn]

SetReg(g) ==
    /\ gsensor' = g.sensor
    /\ gsiguiente' = g.siguiente
    /\ galloc' = g.alloc
    /\ gcabeza' = g.cabeza
    /\ gcola' = g.cola
    /\ gn' = g.n

\* new Nodo(ptr) placed at address a: sensor(ptr), siguiente(NULL).
NuevoNodoGeneral(g, a, s) ==
    [g EXCEPT !.sensor[a] = s, !.siguiente[a] = NULL, !.alloc = @ \cup {a}]

\* (variant: the else branch forgets cola->siguiente = nuevo)
ListaGeneral_push_back_sin_enlace(g, s, a) ==
    LET g1 == NuevoNodoGeneral(g, a, s)
    IN  IF g.cabeza = NULL
        THEN [g1 EXCEPT !.cabeza = a, !.cola = a, !.n = @ + 1]
        ELSE [g1 EXCEPT !.cola = a, !.n = @ + 1]

\* ListaGeneral::push_back(s); a is the address new returns.
ListaGeneral_push_back(g, s, a) ==
    LET g1 == NuevoNodoGeneral(g, a, s)
    IN  IF g.cabeza = NULL
        THEN [g1 EXCEPT !.cabeza = a, !.cola = a, !.n = @ + 1]
        ELSE [g1 EXCEPT !.siguiente[g.cola] = a, !.cola = a, !.n = @ + 1]

\* (variant: the loop goes on after a match and the last one is returned)
RECURSIVE buscarUltimo(_, _, _, _)
buscarUltimo(g, it, id, r) ==
    IF it = NULL THEN r
    ELSE buscarUltimo(g, g.siguiente[it], id,
                      IF nombre[g.sensor[it]] = id THEN g.sensor[it] ELSE r)

buscarPorNombre_ultimo(g, id) == buscarUltimo(g, g.cabeza, id, NULL)

\* The loop of buscarPorNombre from the node it; strcmp(a, b) == 0 is the
\* equality of the two strings.
RECURSIVE buscarBucle(_, _, _)
buscarBucle(g, it, id) ==
    IF it = NULL THEN NULL
    ELSE IF nombre[g.sensor[it]] = id THEN g.sensor[it]
    ELSE buscarBucle(g, g.siguiente[it], id)

\* ListaGeneral::buscarPorNombre(id).
buscarPorNombre(g, id) == buscarBucle(g, g.cabeza, id)

\* The loop of liberarTodo from the node it: delete it->sensor runs the
\* destructor of its historial, which clears it; then delete it. v is the
\* set of the live sensors.
\* (variant: the sensors are deleted through a destructor that is not
\* virtual, which leaves the historial of the derived class as it is)
RECURSIVE liberarBucle_sin_historial(_, _, _, _)
liberarBucle_sin_historial(g, h, v, it) ==
    IF it = NULL THEN [g |-> g, h |-> h, vivas |-> v, orden |-> <<>>]
    ELSE LET s == g.sensor[it]
             h1 == [h EXCEPT !.dobleLibre = @ \/ s \notin v]
             g1 == [g EXCEPT !.sensor[it] = NULL, !.siguiente[it] = NULL,
                             !.alloc = @ \ {it}]
             r == liberarBucle_sin_historial(g1, h1, v \ {s}, g.siguiente[it])
         IN  [r EXCEPT !.orden = <<s>> \o @]

\* orden is the row of its "Liberando Nodo" lines: the sensors deleted, in
\* the order of their deletion.
RECURSIVE liberarBucle(_, _, _, _)
liberarBucle(g, h, v, it) ==
    IF it = NULL THEN [g |-> g, h |-> h, vivas |-> v, orden |-> <<>>]
    ELSE LET s == g.sensor[it]
             h1 == [clear(h, s) EXCEPT !.dobleLibre = @ \/ s \notin v]
             g1 == [g EXCEPT !.sensor[it] = NULL, !.siguiente[it] = NULL,
                             !.alloc = @ \ {it}]
             r == liberarBucle(g1, h1, v \ {s}, g.siguiente[it])
         IN  [r EXCEPT !.orden = <<s>> \o @]

\* (variant: the nodes are deleted and their sensors are not)
liberarTodo_sin_sensores(g, h, v) ==
    IF g.cabeza = NULL THEN [g |-> g, h |-> h, vivas |-> v, orden |-> <<>>]
    ELSE LET r == liberarBucle(g, h, v, g.cabeza)
         IN  [g |-> [r.g EXCEPT !.cabeza = NULL, !.cola = NULL, !.n = 0],
              h |-> h, vivas |-> v, orden |-> r.orden]

\* ListaGeneral::liberarTodo().
liberarTodo(g, h, v) ==
    IF g.cabeza = NULL THEN [g |-> g, h |-> h, vivas |-> v, orden |-> <<>>]
    ELSE LET r == liberarBucle(g, h, v, g.cabeza)
         IN  [r EXCEPT !.g.cabeza = NULL, !.g.cola = NULL, !.g.n = 0]

Sensores == 1..MaxSensores

\* The identifiers typed when a sensor is created.
Ids == {<<"A">>, <<"A", "B">>}

\* The identifiers looked up: those, and one that no sensor has.
Buscados == Ids \cup {<<"B">>}

\* ListaGeneral gestion, constructed; no sensor yet, and celdas the
\* addresses for the readings. In the steps of the registry-level runs
\* salida is what the step itself printed, of the lines modelled.
RegistroVacio(celdas) ==
    /\ dato = [a \in celdas |-> 0]
    /\ siguiente = [a \in celdas |-> NULL]
    /\ alloc = {}
    /\ vivas = {}
    /\ cabeza = [s \in Sensores |-> NULL]
    /\ cola = [s \in Sensores |-> NULL]
    /\ n = [s \in Sensores |-> 0]
    /\ ret = FALSE
    /\ outMin = 0
    /\ dobleLibre = FALSE
    /\ previo = [s \in Sensores |-> <<<<>>, <<>>>>]
    /\ last = [op |-> "init", l |-> NULL, txt |-> PunteroNulo]
    /\ InitContadores
    /\ tipo = [s \in Sensores |-> "-"]
    /\ nombre = [s \in Sensores |-> <<>>]
    /\ salida = [rama |-> "-"]
    /\ base = [s \in Sensores |-> 0]
    /\ llamadas = [s \in Sensores |-> 0]
    /\ gsensor = [g \in Sensores |-> NULL]
    /\ gsiguiente = [g \in Sensores |-> NULL]
    /\ galloc = {}
    /\ gcabeza = NULL
    /\ gcola = NULL
    /\ gn = 0
    /\ hallado = NULL
    /\ insertados = <<>>

InitRegistro == RegistroVacio(1..(MaxSensores - 1))

\* Options 1 and 2 of main: s = new SensorTemperatura(id) or
\* new SensorPresion(id), at any free address s, then gestion.push_back(s).
\* The address a of its node is never read, compared or printed, and the
\* nodes are freed all together: the gn + 1 st node is placed at gn + 1.
CrearSensor(t, id) ==
    /\ \E s \in DOMAIN tipo \ vivas, a \in {gn + 1} \cap DOMAIN gsensor :
           /\ SetMem(ListaVacia(Mem, s))
           /\ vivas' = vivas \cup {s}
           /\ tipo' = [tipo EXCEPT ![s] = t]
           /\ nombre' = [nombre EXCEPT ![s] = SensorBase(id)]
           /\ base' = [base EXCEPT ![s] = 0]
           /\ llamadas' = [llamadas EXCEPT ![s] = 0]
           /\ SetReg(ListaGeneral_push_back(Reg, s, a))
           /\ insertados' = Append(insertados, s)
           /\ last' = [op |-> "crear", l |-> s, txt |-> Cadena(id)]
           /\ previo' = Otras(s)
    /\ hallado' = NULL
    /\ ret' = FALSE
    /\ outMin' = 0
    /\ salida' = [rama |-> "-"]
    /\ UNCHANGED contadores

\* SensorBase* s = gestion.buscarPorNombre(id): hallado is the local s.
Buscar(id) ==
    /\ hallado' = buscarPorNombre(Reg, id)
    /\ last' = [op |-> "buscar", l |-> NULL, txt |-> Cadena(id)]
    /\ previo' = [c \in DOMAIN cabeza |-> Huella(c)]
    /\ ret' = FALSE
    /\ outMin' = 0
    /\ salida' = [rama |-> "-"]
    /\ UNCHANGED <<dato, siguiente, alloc, vivas, cabeza, cola, n, dobleLibre,
                   contadores, tipo, nombre, base, llamadas, gsensor,
                   gsiguiente, galloc, gcabeza, gcola, gn, insertados>>

\* Option 3 of main after its lookup: s->registrarDesdeTexto(val) when s is
\* not NULL; the local s ends with it.
RegistrarHallado(texto) ==
    /\ hallado # NULL
    /\ \E a \in IF registrarDesdeTexto(Mem, hallado, texto,
                                       CHOOSE d \in DOMAIN dato : TRUE).ret
                THEN DOMAIN dato \ alloc ELSE {NULL} :
           LET r == registrarDesdeTexto(Mem, hallado, texto, a)
           IN  /\ SetMem(r.h)
               /\ ret' = r.ret
               /\ base' = IF r.ret
                          THEN [base EXCEPT ![hallado] = size(r.h, hallado)]
                          ELSE base
               /\ llamadas' = IF r.ret THEN [llamadas EXCEPT ![hallado] = 0]
                              ELSE llamadas
    /\ outMin' = 0
    /\ last' = [op |-> "registrar", l |-> hallado, txt |-> texto]
    /\ previo' = Otras(hallado)
    /\ hallado' = NULL
    /\ salida' = [rama |-> "-"]
    /\ UNCHANGED <<vivas, tipo, nombre, contadores, gsensor,
                   gsiguiente, galloc, gcabeza, gcola, gn, insertados>>

\* gestion.liberarTodo(), called by ~ListaGeneral too. The pointer a lookup
\* returned is not kept. On an empty registry it prints nothing.
LiberarTodo ==
    /\ LET r == liberarTodo(Reg, Mem, vivas)
       IN  /\ SetReg(r.g)
           /\ salida' = IF gcabeza = NULL THEN salida
                        ELSE [rama |-> "liberar", orden |-> r.orden]
           /\ SetMem(r.h)
           /\ vivas' = r.vivas
           /\ tipo' = [s \in DOMAIN tipo |->
                          IF s \in r.vivas THEN tipo[s] ELSE "-"]
           /\ nombre' = [s \in DOMAIN nombre |->
                            IF s \in r.vivas THEN nombre[s] ELSE <<>>]
           /\ base' = [s \in DOMAIN base |->
                          IF s \in r.vivas THEN base[s] ELSE 0]
           /\ llamadas' = [s \in DOMAIN llamadas |->
                              IF s \in r.vivas THEN llamadas[s] ELSE 0]
    /\ insertados' = <<>>
    /\ hallado' = NULL
    /\ last' = [op |-> "liberar", l |-> NULL, txt |-> PunteroNulo]
    /\ previo' = [c \in DOMAIN cabeza |-> Huella(c)]
    /\ ret' = FALSE
    /\ outMin' = 0
    /\ UNCHANGED contadores

NextRegistro ==
    \/ \E t \in {"Temperatura", "Presion"}, id \in Ids : CrearSensor(t, id)
    \/ \E id \in Buscados : Buscar(id)
    \/ \E texto \in {Cadena(<<"1">>), Cadena(<<"2", "a">>), Cadena(<<"a">>)} :
           RegistrarHallado(texto)
    \/ LiberarTodo

SpecRegistro == InitRegistro /\ [][NextRegistro]_vars

\* ------------------------------------------------------ procesarLineaSerial
\* sizeof(id) and sizeof(valor) in procesarLineaSerial.
CampoTam == 64

\* strchr(cs, c): the index of the first c in cs, 0 for NULL.
strchr(cs, c) ==
    IF \E i \in 1..Len(cs) : cs[i] = c
    THEN CHOOSE i \in 1..Len(cs) : cs[i] = c /\ \A j \in 1..(i - 1) : cs[j] # c
    ELSE 0

\* The first k characters of cs at most: memcpy of a capped length, or
\* strncpy into a zeroed buffer of k + 1 cells.
Primeros(cs, k) == IF Len(cs) <= k THEN cs ELSE SubSeq(cs, 1, k)

\* The line-end clean-up: one trailing '\n' or '\r' is replaced by NUL.
SinFinDeLinea(cs) ==
    IF cs # <<>> /\ cs[Len(cs)] \in {"\n", "\r"}
    THEN SubSeq(cs, 1, Len(cs) - 1) ELSE cs

\* (variant: the result of registrarDesdeTexto is dropped, true is returned)
procesarLineaSerial_sin_ok(g, h, linea, a) ==
    IF linea.nulo THEN [h |-> h, ret |-> FALSE, s |-> NULL]
    ELSE LET coma == strchr(linea.cs, ",")
         IN  IF coma = 0 THEN [h |-> h, ret |-> FALSE, s |-> NULL]
             ELSE LET id == Primeros(linea.cs, coma - 1)
                      s == buscarPorNombre(g, id)
                  IN  IF s = NULL THEN [h |-> h, ret |-> FALSE, s |-> NULL]
                      ELSE [h |-> h, ret |-> TRUE, s |-> s]

\* procesarLineaSerial(linea, lista); a is the address new returns if a
\* reading is appended. s is its local s.
procesarLineaSerial(g, h, linea, a) ==
    IF linea.nulo THEN [h |-> h, ret |-> FALSE, s |-> NULL]
    ELSE LET coma == strchr(linea.cs, ",")
         IN  IF coma = 0 THEN [h |-> h, ret |-> FALSE, s |-> NULL]
             ELSE LET lenId == IF coma - 1 >= CampoTam THEN CampoTam - 1
                               ELSE coma - 1
                      id == SubSeq(linea.cs, 1, lenId)
                      pVal == SubSeq(linea.cs, coma + 1, Len(linea.cs))
                      valor == SinFinDeLinea(Primeros(pVal, CampoTam - 1))
                      s == buscarPorNombre(g, id)
                  IN  IF s = NULL THEN [h |-> h, ret |-> FALSE, s |-> NULL]
                      ELSE LET r == registrarDesdeTexto(h, s, Cadena(valor), a)
                           IN  [h |-> r.h, ret |-> r.ret, s |-> s]

\* k times the character c.
Repetir(c, k) == [i \in 1..k |-> c]

\* The lines given to procesarLineaSerial: a reading for "A", a text that is
\* no number, an identifier no sensor has, no comma, a line end, two commas,
\* an identifier of 64 characters, a number after 63 blanks, no line.
Lineas ==
    {Cadena(<<"A", ",", "1">>), Cadena(<<"A", ",", "a">>),
     Cadena(<<"B", ",", "1">>), Cadena(<<"A", "1">>),
     Cadena(<<"A", "B", ",", "2", "\n">>), Cadena(<<"A", ",", ",", "1">>),
     Cadena(Repetir("A", CampoTam) \o <<",", "1">>),
     Cadena(<<"A", ",">> \o Repetir(" ", CampoTam - 1) \o <<"1">>),
     PunteroNulo}

\* Option 6 of main: procesarLineaSerial(linea, gestion).
LineaSerial(linea) ==
    /\ \E a \in IF procesarLineaSerial(Reg, Mem, linea,
                                       CHOOSE d \in DOMAIN dato : TRUE).ret
                THEN DOMAIN dato \ alloc ELSE {NULL} :
           LET r == procesarLineaSerial(Reg, Mem, linea, a)
           IN  /\ SetMem(r.h)
               /\ ret' = r.ret
               /\ base' = IF r.ret THEN [base EXCEPT ![r.s] = size(r.h, r.s)]
                          ELSE base
               /\ llamadas' = IF r.ret THEN [llamadas EXCEPT ![r.s] = 0]
                              ELSE llamadas
               /\ last' = [op |-> "serial", l |-> r.s, txt |-> linea]
    /\ outMin' = 0
    /\ previo' = [c \in DOMAIN cabeza |-> Huella(c)]
    /\ hallado' = NULL
    /\ salida' = [rama |-> "-"]
    /\ UNCHANGED <<vivas, tipo, nombre, contadores, gsensor, gsiguiente,
                   galloc, gcabeza, gcola, gn, insertados>>

NextSerial ==
    \/ \E t \in {"Temperatura", "Presion"}, id \in Ids : CrearSensor(t, id)
    \/ \E linea \in Lineas : LineaSerial(linea)

SpecSerial == InitRegistro /\ [][NextSerial]_vars

\* ------------------------------------------------------------ procesarTodos
\* The loop of procesarTodos from the node it. pasos is the row of its
\* calls: the sensor called and what the call printed.
RECURSIVE procesarTodosBucle(_, _, _)
procesarTodosBucle(g, h, it) ==
    IF it = NULL THEN [h |-> h, pasos |-> <<>>]
    ELSE LET s == g.sensor[it]
             r == procesarLectura(h, s)
             resto == procesarTodosBucle(g, r.h, g.siguiente[it])
         IN  [h |-> resto.h,
              pasos |-> <<[s |-> s, salida |-> r.salida]>> \o resto.pasos]

\* (variant: the pass starts at the second node)
procesarTodos_desde_el_segundo(g, h) ==
    IF g.cabeza = NULL THEN [h |-> h, pasos |-> <<>>]
    ELSE procesarTodosBucle(g, h, g.siguiente[g.cabeza])

\* ListaGeneral::procesarTodos().
procesarTodos(g, h) == procesarTodosBucle(g, h, g.cabeza)

\* Option 4 of main: gestion.procesarTodos(). The counts of the calls made
\* one by one start anew after a pass.
ProcesarTodos ==
    /\ LET r == procesarTodos(Reg, Mem)
       IN  /\ SetMem(r.h)
           /\ salida' = [rama |-> "todos", pasos |-> r.pasos]
           /\ base' = [s \in DOMAIN base |-> size(r.h, s)]
    /\ llamadas' = [s \in DOMAIN llamadas |-> 0]
    /\ ret' = FALSE
    /\ outMin' = 0
    /\ hallado' = NULL
    /\ last' = [op |-> "todos", l |-> NULL, txt |-> PunteroNulo]
    /\ previo' = [c \in DOMAIN cabeza |-> Huella(c)]
    /\ UNCHANGED <<vivas, tipo, nombre, contadores, gsensor, gsiguiente,
                   galloc, gcabeza, gcola, gn, insertados>>

\* The registry with a reading cell for each sensor it can hold.
InitTodos == RegistroVacio(Sensores)

NextTodos ==
    \/ \E t \in {"Temperatura", "Presion"}, id \in Ids : CrearSensor(t, id)
    \/ \E linea \in {Cadena(<<"A", ",", "1">>),
                     Cadena(<<"A", "B", ",", "2", "\n">>)} :
           LineaSerial(linea)
    \/ ProcesarTodos

SpecTodos == InitTodos /\ [][NextTodos]_vars

\* ------------------------------------------------------------------ main
\* The commands of the loop of main, each run while the loop runs.
\* Option 5, imprimirResumen, reads and prints only.
ShellCrear(t, id) == pc = "menu" /\ CrearSensor(t, id)

ShellBuscar(id) == pc = "menu" /\ hallado = NULL /\ Buscar(id)

ShellRegistrar(texto) == pc = "menu" /\ RegistrarHallado(texto)

ShellProcesarTodos == pc = "menu" /\ hallado = NULL /\ ProcesarTodos

ShellLineaSerial(linea) == pc = "menu" /\ hallado = NULL /\ LineaSerial(linea)

\* Option 0 or the end of the input: break. The lookup of option 3 is
\* followed by its registrarDesdeTexto before the next command is read,
\* save at the end of the input, where its local is dropped.
Salir ==
    /\ pc = "menu"
    /\ pc' = "salida"
    /\ hallado' = NULL
    /\ UNCHANGED <<listaVars, pushes, pops, clears, borrados, traza,
                   sensorVars, gsensor, gsiguiente, galloc, gcabeza, gcola,
                   gn, insertados>>

\* return 0: ~ListaGeneral runs liberarTodo, once.
ShellDestructor == pc = "salida" /\ last.op # "liberar" /\ LiberarTodo

InitShell == RegistroVacio(Sensores)

NextShell ==
    \/ \E t \in {"Temperatura", "Presion"}, id \in Ids : ShellCrear(t, id)
    \/ \E id \in {<<"A">>, <<"B">>} : ShellBuscar(id)
    \/ \E texto \in {Cadena(<<"1">>), Cadena(<<"a">>)} : ShellRegistrar(texto)
    \/ ShellProcesarTodos
    \/ \E linea \in {Cadena(<<"A", "B", ",", "2", "\n">>),
                     Cadena(<<"A", "1">>)} :
           ShellLineaSerial(linea)
    \/ Salir
    \/ ShellDestructor

SpecShell == InitShell /\ [][NextShell]_vars

\* The commands of main on fewer inputs, then the way out. Past the loop
\* nothing stands between the break and the return, whose destructor call
\* the program cannot skip.
NextCierre ==
    \/ \E t \in {"Temperatura", "Presion"} : ShellCrear(t, <<"A">>)
    \/ ShellBuscar(<<"A">>)
    \/ ShellRegistrar(Cadena(<<"2">>))
    \/ ShellLineaSerial(Cadena(<<"A", ",", "1">>))
    \/ ShellProcesarTodos
    \/ Salir
    \/ ShellDestructor

\* The step of ShellDestructor, told by what it does to last: the only
\* step past the loop, taken once.
PasoDestructor ==
    /\ pc = "salida"
    /\ last.op # "liberar"
    /\ last' = [op |-> "liberar", l |-> NULL, txt |-> PunteroNulo]

SpecCierre == InitShell /\ [][NextCierre]_vars /\ WF_last(PasoDestructor)

\* sizeof(id) in options 1, 2 and 3 of main: fgets keeps 63 characters of
\* the line at most.
IdTam == 64

\* Identifiers main accepts: of one character, of as many as nombre holds,
\* of one more, and of as many as id holds.
IdsLargos ==
    {<<"A">>, Repetir("A", NombreTam - 1), Repetir("A", NombreTam),
     Repetir("A", IdTam - 1)}

\* Options 1 and 2 of main, and the lookup of option 3, on those.
NextIds ==
    \/ \E t \in {"Temperatura", "Presion"}, id \in IdsLargos :
           CrearSensor(t, id)
    \/ \E id \in IdsLargos : Buscar(id)

SpecIds == InitRegistro /\ [][NextIds]_vars

\* ------------------------------------------------- helpers of the claims
Minimo(S) == CHOOSE m \in S : \A y \in S : m <= y

PrimerIndice(s, v) == CHOOSE i \in 1..Len(s) :
                          s[i] = v /\ \A j \in 1..(i - 1) : s[j] # v

Quitar(s, i) == [j \in 1..(Len(s) - 1) |-> IF j < i THEN s[j] ELSE s[j + 1]]

\* -------------------------------------------------------------------- C1
\* C1: in every reachable state of a live ListaSensor, n is the number of
\* nodes reachable from cabeza, cola is the last node of that chain (its
\* successor is NULL, it is reached in n-1 steps), and cabeza and cola are
\* both NULL exactly when n = 0.
C1_Invariante ==
    \A l \in vivas :
        /\ Len(Nodos(l)) = n[l]
        /\ (n[l] = 0) <=> (cabeza[l] = NULL)
        /\ (n[l] = 0) <=> (cola[l] = NULL)
        /\ n[l] > 0 => /\ Nodos(l)[n[l]] = cola[l]
                       /\ siguiente[cola[l]] = NULL

\* pop_min has just removed a node of a list that still holds one, next to
\* a second live list that holds nodes too.
C1_Testigo ==
    /\ last.op = "pop_min"
    /\ ret
    /\ n[last.l] >= 1
    /\ \E d \in vivas \ {last.l} : n[d] >= 1

\* -------------------------------------------------------------------- C2
\* C2 as stated: size() equals the number of push_back calls minus the
\* number of successful pop_min calls and of clear calls.
C2_Original ==
    1 \in vivas => size(Mem, 1) = pushes - pops - clears

\* C2 amended: size() equals the number of push_back calls minus the number
\* of successful pop_min calls minus the number of nodes the clear calls
\* released (a clear removes every element then held, not one).
C2_Cuenta ==
    1 \in vivas => size(Mem, 1) = pushes - pops - borrados

\* A clear released a node, a pop_min succeeded, and the list holds a node.
C2_Testigo ==
    /\ borrados >= 1
    /\ pops >= 1
    /\ n[1] >= 1

\* -------------------------------------------------------------------- C3
\* C3: pop_min on a non-empty list returns true, sets outMin to the minimum
\* stored value and removes exactly one node, the earliest-inserted node
\* holding that minimum; size decreases by 1 and every other element keeps
\* its node, its value and its relative order.
C3_Paso ==
    \A l \in Listas :
        (last'.op = "pop_min" /\ last'.l = l /\ cabeza[l] # NULL) =>
            LET s == Secuencia(l)
                m == Minimo(Rango(s))
                i == PrimerIndice(s, m)
            IN  /\ ret' = TRUE
                /\ outMin' = m
                /\ n'[l] = n[l] - 1
                /\ alloc' = alloc \ {Nodos(l)[i]}
                /\ ~dobleLibre'
                /\ Nodos(l)' = Quitar(Nodos(l), i)
                /\ Secuencia(l)' = Quitar(s, i)

C3_PopMin == [][C3_Paso]_vars

\* pop_min has removed a minimum of which an equal value is still stored.
C3_Testigo ==
    /\ last.op = "pop_min"
    /\ ret
    /\ n[last.l] >= 2
    /\ outMin \in Rango(Secuencia(last.l))

\* -------------------------------------------------------------------- C4
\* C4: pop_min on an empty list returns false and mutates nothing: cabeza,
\* cola and n stay NULL/0, no node is touched, and the caller's variable
\* keeps the value x it had before the call.
C4_Paso ==
    \A l \in Listas, x \in Entradas :
        (PopMin(l, x) /\ cabeza[l] = NULL) =>
            /\ ret' = FALSE
            /\ outMin' = x
            /\ cabeza'[l] = NULL /\ cola'[l] = NULL /\ n'[l] = 0
            /\ UNCHANGED <<dato, siguiente, alloc, cabeza, cola, n>>
            /\ ~dobleLibre'

C4_PopMinVacia == [][C4_Paso]_vars

\* pop_min failed on an empty list while the caller's variable held a
\* value other than T(0).
C4_Testigo ==
    /\ last.op = "pop_min"
    /\ ~ret
    /\ outMin # 0
    /\ last.l \in vivas
    /\ n[last.l] = 0

\* -------------------------------------------------------------------- C5
\* C5 (copy law): a copy-constructed list has the values of its source in
\* the same order (equal size() and sum()) and shares no node with it; two
\* live lists never share a node; and an operation applied to one list
\* leaves the nodes and the values of every other list as they were.
C5_LeyCopia ==
    /\ last.op = "copia" =>
           /\ Secuencia(last.l) = Secuencia(last.src)
           /\ size(Mem, last.l) = size(Mem, last.src)
           /\ sum(Mem, last.l) = sum(Mem, last.src)
    /\ \A c \in vivas, d \in vivas :
           c # d => Rango(Nodos(c)) \cap Rango(Nodos(d)) = {}
    /\ \A c \in Listas :
           c # last.l =>
               /\ Huella(c) = previo[c]
               /\ Rango(Nodos(c)) \subseteq alloc

\* A list has just been copy-constructed from a list of two nodes or more.
C5_Testigo ==
    /\ last.op = "copia"
    /\ n[last.src] >= 2
    /\ n[last.l] = n[last.src]
    /\ \E i \in 1..2 : Secuencia(last.src)[i] # Secuencia(last.src)[3 - i]

\* -------------------------------------------------------------------- C6
\* C6: a = b with a and b distinct deletes every node a owned exactly once
\* (no delete of a freed node, no node left allocated outside the lists)
\* and leaves a with a chain of its own holding b's values in b's order,
\* b as it was; a = a deletes nothing and leaves a as it was.
C6_Asignacion ==
    last.op = "asignar" =>
        LET a == last.l
            b == last.src
        IN  /\ ~dobleLibre
            /\ alloc = UNION {Rango(Nodos(c)) : c \in vivas}
            /\ Huella(b) = previo[b]
            /\ Secuencia(a) = Secuencia(b)
            /\ n[a] = n[b]
            /\ a # b => Rango(Nodos(a)) \cap Rango(Nodos(b)) = {}

\* a = b, a and b distinct, has given a a copy of two nodes of b or more.
C6_Testigo ==
    /\ last.op = "asignar"
    /\ last.l # last.src
    /\ n[last.l] >= 2
    /\ \E i \in 1..2 : Secuencia(last.l)[i] # Secuencia(last.l)[3 - i]

\* -------------------------------------------------------------------- C7
\* C7: a SensorTemperatura that held b readings after its last ingestion
\* holds b - k readings after k <= b calls of procesarLectura, each of them
\* having removed exactly one reading, so none after b calls; every later
\* call takes the "no readings" branch, changes nothing and frees nothing.
C7_Estado ==
    \A s \in vivas :
        tipo[s] = "Temperatura" =>
            size(Mem, s) = IF llamadas[s] <= base[s]
                           THEN base[s] - llamadas[s] ELSE 0

C7_Paso ==
    \A s \in Listas :
        (last'.op = "procesar" /\ last'.l = s /\ tipo[s] = "Temperatura") =>
            IF llamadas[s] < base[s]
            THEN /\ salida'.rama = "eliminada"
                 /\ n'[s] = n[s] - 1
                 /\ Rango(Nodos(s)') \subseteq Rango(Nodos(s))
                 /\ Cardinality(Rango(Nodos(s)) \ Rango(Nodos(s)')) = 1
                 /\ ~dobleLibre'
            ELSE /\ salida'.rama = "sin lecturas"
                 /\ UNCHANGED <<dato, siguiente, alloc, cabeza, cola, n>>
                 /\ ~dobleLibre'

C7_HastaVacio == [](C7_Estado) /\ [][C7_Paso]_vars

\* The call after the last of two or more readings was removed.
C7_Testigo ==
    /\ last.op = "procesar"
    /\ tipo[last.l] = "Temperatura"
    /\ base[last.l] >= 2
    /\ llamadas[last.l] = base[last.l] + 1
    /\ salida.rama = "sin lecturas"

\* -------------------------------------------------------------------- C8
\* C8: procesarLectura on a SensorPresion leaves the memory as it is: its
\* container has the same size and the same readings in the same order,
\* empty or not, however many times it is called.
C8_Paso ==
    \A s \in Listas :
        (last'.op = "procesar" /\ last'.l = s /\ tipo[s] = "Presion") =>
            /\ UNCHANGED <<dato, siguiente, alloc, cabeza, cola, n>>
            /\ Huella(s)' = Huella(s)
            /\ salida'.rama = IF n[s] = 0 THEN "sin lecturas" ELSE "promedio"

C8_NoDestructivo == [][C8_Paso]_vars

\* A second call in a row on a pressure sensor that holds two readings.
C8_Testigo ==
    /\ last.op = "procesar"
    /\ tipo[last.l] = "Presion"
    /\ n[last.l] >= 2
    /\ llamadas[last.l] >= 2

\* -------------------------------------------------------------------- C9
\* The numeric grammars: an integer is an optional sign and digits; a
\* floating-point number an optional sign and digits with an optional
\* point, one digit at least; the whole text, nothing before or after.
EsEntero(cs) ==
    LET d == LeerDigitos(Signo(cs).resto, 0, 0)
    IN  d.k > 0 /\ d.resto = <<>>

EsFlotante(cs) ==
    LET e == LeerDigitos(Signo(cs).resto, 0, 0)
        f == IF e.resto # <<>> /\ Head(e.resto) = "."
             THEN LeerDigitos(Tail(e.resto), 0, 0)
             ELSE [v |-> 0, k |-> 0, resto |-> e.resto]
    IN  e.k + f.k > 0 /\ f.resto = <<>>

Coincide(t, texto) ==
    /\ ~texto.nulo
    /\ IF t = "Presion" THEN EsEntero(texto.cs) ELSE EsFlotante(texto.cs)

\* C9: registrarDesdeTexto returns true and appends exactly one reading
\* when the text matches the grammar of the sensor's type, and returns
\* false and leaves the container unchanged for any other text.
C9_Paso ==
    \A s \in Listas :
        (last'.op = "registrar" /\ last'.l = s) =>
            IF Coincide(tipo[s], last'.txt)
            THEN /\ ret'
                 /\ Len(Secuencia(s)') = Len(Secuencia(s)) + 1
                 /\ SubSeq(Secuencia(s)', 1, Len(Secuencia(s))) = Secuencia(s)
                 /\ size(Mem, s)' = size(Mem, s) + 1
            ELSE /\ ~ret'
                 /\ Huella(s)' = Huella(s)
                 /\ size(Mem, s)' = size(Mem, s)

C9_Original == [][C9_Paso]_vars

\* A pressure sensor has taken the text "1.5" for the reading 1.
C9_Testigo ==
    /\ last.op = "registrar"
    /\ tipo[last.l] = "Presion"
    /\ last.txt = Cadena(<<"1", ".", "5">>)
    /\ ret
    /\ Secuencia(last.l) = <<1>>

\* ------------------------------------------------------------------- C10
Coincidentes(id) ==
    {i \in 1..Len(insertados) : nombre[insertados[i]] = id}

\* C10: buscarPorNombre(id) returns the earliest-inserted sensor whose
\* identifier is id, also when several have it, and NULL when none has it;
\* it changes neither the registry nor any sensor.
C10_Estado ==
    last.op = "buscar" =>
        LET c == Coincidentes(last.txt.cs)
        IN  IF c = {} THEN hallado = NULL
            ELSE hallado = insertados[Minimo(c)]

C10_Paso ==
    last'.op = "buscar" =>
        UNCHANGED <<dato, siguiente, alloc, vivas, cabeza, cola, n, dobleLibre,
                    tipo, nombre, gsensor, gsiguiente, galloc, gcabeza, gcola,
                    gn>>

C10_Busqueda == [](C10_Estado) /\ [][C10_Paso]_vars

\* Two registered sensors have the identifier looked up; the first inserted
\* is the one returned.
C10_Testigo ==
    /\ last.op = "buscar"
    /\ Cardinality(Coincidentes(last.txt.cs)) >= 2
    /\ hallado = insertados[1]
    /\ hallado # NULL

\* ------------------------------------------------------------------- C11
\* C11: liberarTodo on a registry that holds sensors deletes each of them
\* once, in the order of their insertion, with their readings and the nodes
\* of the registry, and leaves cabeza and cola NULL and n 0; on an empty
\* registry it deletes nothing and changes nothing.
C11_Paso ==
    last'.op = "liberar" =>
        IF gcabeza # NULL
        THEN /\ salida'.rama = "liberar"
             /\ salida'.orden = insertados
             /\ Rango(insertados) = vivas
             /\ vivas' = {}
             /\ alloc' = {}
             /\ galloc' = {}
             /\ gcabeza' = NULL /\ gcola' = NULL /\ gn' = 0
             /\ ~dobleLibre'
        ELSE /\ UNCHANGED <<dato, siguiente, alloc, vivas, cabeza, cola, n,
                            dobleLibre, tipo, nombre, salida, gsensor,
                            gsiguiente, galloc, gcabeza, gcola, gn>>
             /\ vivas = {}

C11_Liberacion == [][C11_Paso]_vars

\* Two sensors, one of them with a reading, have been deleted in the order
\* of their insertion.
C11_Testigo ==
    /\ last.op = "liberar"
    /\ salida.rama = "liberar"
    /\ Len(salida.orden) >= 2
    /\ \E c \in DOMAIN previo : previo[c][2] # <<>>
    /\ alloc = {}
    /\ vivas = {}
    /\ gn = 0

\* ------------------------------------------------------------------- C12
\* The identifier of a line: what stands before its first comma; its value:
\* what stands after it, less the line end.
C12_Id(linea) == SubSeq(linea.cs, 1, strchr(linea.cs, ",") - 1)

C12_Valor(linea) ==
    SinFinDeLinea(SubSeq(linea.cs, strchr(linea.cs, ",") + 1, Len(linea.cs)))

\* The line has a comma, a registered sensor has its identifier, and the
\* first such sensor takes its value.
C12_Aceptable(linea) ==
    /\ ~linea.nulo
    /\ strchr(linea.cs, ",") # 0
    /\ Coincidentes(C12_Id(linea)) # {}
    /\ LET s == insertados[Minimo(Coincidentes(C12_Id(linea)))]
       IN  IF tipo[s] = "Presion" THEN sscanf_d(C12_Valor(linea)).r = 1
           ELSE sscanf_f(C12_Valor(linea)).r = 1

\* C12: procesarLineaSerial returns true only for a line whose identifier
\* is that of a registered sensor which takes the value; for a line with no
\* comma, an identifier no sensor has or a value the sensor rejects it
\* returns false and no reading changes; it never creates a sensor.
C12_Paso ==
    last'.op = "serial" =>
        /\ ret' => C12_Aceptable(last'.txt)
        /\ ~C12_Aceptable(last'.txt) =>
               /\ ~ret'
               /\ UNCHANGED <<dato, siguiente, alloc, cabeza, cola, n>>
        /\ \A c \in DOMAIN cabeza : c # last'.l => Huella(c)' = Huella(c)
        /\ UNCHANGED <<vivas, tipo, nombre, gsensor, gsiguiente, galloc,
                       gcabeza, gcola, gn>>
        /\ ~dobleLibre'

C12_LineaSerial == [][C12_Paso]_vars

\* A line for a registered sensor that holds a reading was rejected for its
\* value.
C12_Testigo ==
    /\ last.op = "serial"
    /\ ~ret
    /\ last.l # NULL
    /\ n[last.l] >= 1
    /\ last.txt = Cadena(<<"A", ",", "a">>)

\* ------------------------------------------------------------------- C13
\* C13: a pass of procesarTodos calls procesarLectura once on each sensor
\* of the registry, in the order of their insertion, whatever its kind and
\* whether it holds readings: a temperature sensor with readings loses one,
\* any other sensor keeps what it holds; the registry is as it was.
C13_Paso ==
    last'.op = "todos" =>
        /\ [i \in 1..Len(salida'.pasos) |-> salida'.pasos[i].s] = insertados
        /\ \A i \in 1..Len(insertados) :
               LET s == insertados[i]
                   rama == salida'.pasos[i].salida.rama
               IN  IF tipo[s] = "Temperatura" /\ n[s] > 0
                   THEN /\ rama = "eliminada"
                        /\ n'[s] = n[s] - 1
                        /\ Len(Secuencia(s)') = Len(Secuencia(s)) - 1
                   ELSE /\ rama = IF n[s] = 0 THEN "sin lecturas"
                                  ELSE "promedio"
                        /\ Huella(s)' = Huella(s)
        /\ UNCHANGED <<vivas, tipo, nombre, gsensor, gsiguiente, galloc,
                       gcabeza, gcola, gn, insertados>>
        /\ ~dobleLibre'

C13_Pasada == [][C13_Paso]_vars

\* A pass over a temperature sensor and a pressure sensor that both held a
\* reading.
C13_Testigo ==
    /\ last.op = "todos"
    /\ Len(salida.pasos) >= 2
    /\ \E i, j \in 1..Len(salida.pasos) :
           /\ salida.pasos[i].salida.rama = "eliminada"
           /\ salida.pasos[j].salida.rama = "promedio"

\* ------------------------------------------------------------------- C14
\* The sum of the values of a sequence.
RECURSIVE C14_Suma(_)
C14_Suma(s) == IF s = <<>> THEN 0 ELSE Head(s) + C14_Suma(Tail(s))

\* C14: procesarLectura on a SensorTemperatura that holds readings reports
\* as removed the minimum of the readings held before the call, and as
\* average the sum of the readings that remain divided by their number, 0
\* when none remains; the readings that remain are those held before less
\* one occurrence of that minimum.
C14_Paso ==
    \A s \in DOMAIN cabeza :
        (last'.op = "procesar" /\ last'.l = s /\ tipo[s] = "Temperatura"
         /\ n[s] >= 1) =>
            LET antes == Secuencia(s)
                resto == Secuencia(s)'
                m == Minimo(Rango(antes))
            IN  /\ salida'.rama = "eliminada"
                /\ salida'.eliminado = m
                /\ resto = Quitar(antes, PrimerIndice(antes, m))
                /\ size(Mem, s)' = Len(antes) - 1
                /\ IF resto = <<>> THEN salida'.promedio[1] = 0
                   ELSE salida'.promedio[1] * Len(resto)
                            = C14_Suma(resto) * salida'.promedio[2]

C14_MinimoYPromedio == [][C14_Paso]_vars

\* Of the readings 2.0, 1.0 and 1.5 the reading 1.0 was removed and the
\* average of the other two, 3.5 / 2, reported.
C14_Testigo ==
    /\ last.op = "procesar"
    /\ tipo[last.l] = "Temperatura"
    /\ salida.rama = "eliminada"
    /\ salida.eliminado = Escala
    /\ Secuencia(last.l) = <<2 * Escala, Escala + 5>>
    /\ salida.promedio = <<3 * Escala + 5, 2>>

\* ------------------------------------------------------------------- C15
\* The sum of a sequence of int values, written in base 2^16 so that it is
\* held whatever its size: <<alta, baja>> is alta * 2^16 + baja.
C15_Base == 65536

RECURSIVE C15_Alta(_)
C15_Alta(s) ==
    IF s = <<>> THEN 0 ELSE (Head(s) \div C15_Base) + C15_Alta(Tail(s))

RECURSIVE C15_Baja(_)
C15_Baja(s) ==
    IF s = <<>> THEN 0 ELSE (Head(s) % C15_Base) + C15_Baja(Tail(s))

C15_SumaVerdadera(s) ==
    <<C15_Alta(s) + (C15_Baja(s) \div C15_Base), C15_Baja(s) % C15_Base>>

\* C15: procesarLectura on a SensorPresion that holds readings reports
\* their true sum divided by their number, whatever readings
\* registrarDesdeTexto has stored.
C15_Paso ==
    \A s \in DOMAIN cabeza :
        (last'.op = "procesar" /\ last'.l = s /\ tipo[s] = "Presion"
         /\ n[s] >= 1) =>
            /\ salida'.rama = "promedio"
            /\ salida'.promedio[2] = Len(Secuencia(s))
            /\ <<salida'.promedio[1] \div C15_Base,
                 salida'.promedio[1] % C15_Base>>
                   = C15_SumaVerdadera(Secuencia(s))

C15_Original == [][C15_Paso]_vars

\* Of the readings 2147483647 and 2147483647 the average -2 / 2 was
\* reported.
C15_Testigo ==
    /\ last.op = "procesar"
    /\ tipo[last.l] = "Presion"
    /\ Secuencia(last.l) = <<IntMax, IntMax>>
    /\ salida.rama = "promedio"
    /\ salida.promedio = <<0 - 2, 2>>

\* ------------------------------------------------------------------- C16
\* C16: push_back(v) makes the sequence of the list the sequence before it
\* followed by v, on the nodes it had followed by a new one which is its
\* cola, in every state the list can be in: empty, emptied by pop_min or
\* clear, or with its last node removed by pop_min.
C16_Paso ==
    \A l \in Listas, v \in Valores :
        PushBack(l, v) =>
            /\ Secuencia(l)' = Append(Secuencia(l), v)
            /\ Len(Nodos(l)') = Len(Nodos(l)) + 1
            /\ SubSeq(Nodos(l)', 1, Len(Nodos(l))) = Nodos(l)
            /\ cola'[l] = Nodos(l)'[Len(Nodos(l)')]
            /\ size(Mem, l)' = size(Mem, l) + 1
            /\ ~dobleLibre'

C16_Anexar == [][C16_Paso]_vars

\* A push_back on a list of several elements whose last node the pop_min
\* before it had removed.
C16_Testigo ==
    /\ traza = <<"pop_min: cola", "push_back">>
    /\ n[1] >= 2
    /\ Len(Secuencia(1)) = n[1]

\* ------------------------------------------------------------------- C17
\* C17: clear() leaves the list empty (cabeza and cola NULL, n 0) and
\* releases each node the list held, once, and no other; on an empty list
\* it releases nothing and changes nothing; a push_back after it gives the
\* list of that one element.
C17_Paso ==
    /\ Clear(1) =>
           /\ cabeza'[1] = NULL /\ cola'[1] = NULL /\ n'[1] = 0
           /\ Rango(Nodos(1)) \subseteq alloc
           /\ alloc' = alloc \ Rango(Nodos(1))
           /\ ~dobleLibre'
           /\ cabeza[1] = NULL =>
                  UNCHANGED <<dato, siguiente, alloc, cabeza, cola, n>>
    /\ \A v \in Valores :
           (PushBack(1, v) /\ traza[2] \in {"clear: vacia", "clear: llena"}) =>
               /\ Secuencia(1)' = <<v>>
               /\ n'[1] = 1
               /\ cabeza'[1] = cola'[1]
               /\ ~dobleLibre'

C17_Idempotente == [][C17_Paso]_vars

\* A second clear() in a row, after one that released nodes.
C17_Testigo ==
    /\ traza = <<"clear: llena", "clear: vacia">>
    /\ 1 \in vivas
    /\ cabeza[1] = NULL /\ cola[1] = NULL /\ n[1] = 0
    /\ alloc = {}
    /\ ~dobleLibre

\* ------------------------------------------------------------------- C18
\* C18: in every state the commands of main reach, each live sensor is the
\* sensor of exactly one node of the registry, each allocated reading node
\* is in the chain of exactly one live sensor, once, and after a command
\* that gave a reading to one sensor the readings of every other sensor are
\* those it had before.
RECURSIVE C18_Cadena(_, _)
C18_Cadena(it, fuel) ==
    IF it = NULL \/ fuel = 0 THEN <<>>
    ELSE <<it>> \o C18_Cadena(gsiguiente[it], fuel - 1)

C19_Limpio ==
    /\ last.op = "liberar"
    /\ vivas = {}
    /\ alloc = {}
    /\ galloc = {}
    /\ gcabeza = NULL /\ gcola = NULL /\ gn = 0
    /\ ~dobleLibre

\* C19: once the loop of main has ended, after any commands, the teardown
\* of the registry runs and leaves nothing allocated, and no address has
\* been released twice by then (dobleLibre, once set, stays set), the
\* nodes that pop_min released included.
C19_Cierre == (pc = "salida") ~> C19_Limpio

\* The teardown after the loop has released two sensors, one of which held
\* a reading.
C19_Testigo ==
    /\ pc = "salida"
    /\ C19_Limpio
    /\ salida.rama = "liberar"
    /\ Len(salida.orden) >= 2
    /\ \E c \in DOMAIN previo : previo[c][2] # <<>>

\* ------------------------------------------------------------------- C20
\* C20: when a sensor has just been created with an identifier, the lookup
\* of that same text returns a sensor, and its stored identifier is the
\* text.
C20_Paso ==
    (last.op = "crear" /\ last'.op = "buscar" /\ last'.txt = last.txt) =>
        /\ hallado' # NULL
        /\ nombre[hallado'] = last.txt.cs

C20_Original == [][C20_Paso]_vars

\* The lookup of an identifier of 50 characters finds nothing, while a
\* sensor created with it is registered under its first 49.
C20_Testigo ==
    /\ last.op = "buscar"
    /\ last.txt = Cadena(Repetir("A", NombreTam))
    /\ hallado = NULL
    /\ gn >= 1
    /\ \A i \in 1..Len(insertados) :
           nombre[insertados[i]] = Repetir("A", NombreTam - 1)

====
